---- MODULE Spec2Model ----
(***************************************************************************)
(* Model of the constraint IR of air-script: the hash-consed               *)
(* AlgebraicGraph (ir/src/constraints/graph.rs), its degree and            *)
(* segment/domain analyses, and the traversal engine of the pass           *)
(* framework (ir/src/passes/visitor.rs), the constant propagation pass     *)
(* (ir/src/passes/constant_propagation.rs), the helper functions of the    *)
(* GCE code generator (codegen/gce/src/lib.rs), and the parser and the     *)
(* assembly back end as far as their tests show them.                      *)
(***************************************************************************)
EXTENDS Integers, Sequences, FiniteSets, TLC

VARIABLES
    parent_of,   \* ir2: the parent back-link of each node (Node.parent, Leaf.parent)
    children_of, \* ir2: the child list of each node (Node.children, Graph.nodes)
    source,     \* the AirScript source under translation: an expression, or constraints
    ir,         \* the AirIR handed to the code generator: constants, segment_widths
    nodes,      \* AlgebraicGraph.nodes : Vec<Node>; node i of the code is nodes[i + 1]
    call,       \* the last operation invoked on the graph, with its arguments
    ret,        \* what that operation returned
    order,      \* VisitContext::visit_order of the pass that is run
    schedules,  \* whether VisitContext::visit calls visit_later on the children of its node
    boundary,   \* VisitContext::boundary_roots : HashSet<NodeIndex>
    integrity,  \* VisitContext::integrity_roots : HashSet<NodeIndex>
    declared,   \* the boundary and the integrity roots in the order they were declared
    todo,       \* the roots the running for loop still has to yield, in its iteration order
    stack,      \* VisitContext::as_stack_mut : Vec<NodeIndex>, the top at the end
    last,       \* the local `last` of visit_postorder
    visited,    \* the node indices passed to VisitContext::visit so far, in call order
    pc          \* where Visit::run stands

linkVars == <<parent_of, children_of>>

inputVars == <<source, ir>>

graphVars == <<nodes, call, ret>>

visitVars == <<order, schedules, boundary, integrity, declared, todo, stack, last, visited, pc>>

vars == <<parent_of, children_of, source, ir, nodes, call, ret, order, schedules, boundary, integrity, declared, todo, stack, last, visited, pc>>

\* ------------------------------------------------------------------------
\* Bounds of the model
\* ------------------------------------------------------------------------

\* The arena holds at most MaxNodes nodes.
MaxNodes == 3

\* A pass has at most MaxRoots constraint roots, boundary and integrity together.
MaxRoots == 2

\* The trace has at most MaxSegments segments.
MaxSegments == 2

\* A child list of the ir2 graph holds at most MaxChildren links.
MaxChildren == 2

\* ------------------------------------------------------------------------
\* Values and operations
\* ------------------------------------------------------------------------

DEFAULT_SEGMENT == 0

AUX_SEGMENT == 1

\* A Value is a record [kind, a, b, c]:
\*   Constant(a)   RandomValue(a)   PublicInput(_, a)
\*   PeriodicColumn(a = table index, b = cycle length)
\*   TraceElement(a = trace segment, b = column, c = row offset)
Val(kind, a, b, c) == [kind |-> kind, a |-> a, b |-> b, c |-> c]

\* Placeholder carried in the value field of the interior operations.
NoValue == Val("None", 0, 0, 0)

\* An Operation is a record [tag, value, lhs, rhs]; Exp keeps its exponent in rhs.
Value(v) == [tag |-> "Value", value |-> v, lhs |-> 0, rhs |-> 0]

Add(l, r) == [tag |-> "Add", value |-> NoValue, lhs |-> l, rhs |-> r]

Sub(l, r) == [tag |-> "Sub", value |-> NoValue, lhs |-> l, rhs |-> r]

Mul(l, r) == [tag |-> "Mul", value |-> NoValue, lhs |-> l, rhs |-> r]

Exp(l, k) == [tag |-> "Exp", value |-> NoValue, lhs |-> l, rhs |-> k]

\* NodeIndex::default()
DefaultIndex == 0

\* The nodes of an ir2 graph: the Graph root, which is no child, and two Nodes,
\* each a parent and a child.
LinkNodes == {"graph", "n1", "n2"}

LinkChildren == {"n1", "n2"}

\* BackLink::none()
NoParent == "none"

\* no ir2 node has been linked: Node::default() and Graph::default()
NoLinks ==
    /\ parent_of = [c \in LinkChildren |-> NoParent]
    /\ children_of = [p \in LinkNodes |-> <<>>]

\* An AirIR, as the code generator reads it: ir.constants() and ir.segment_widths()
AirIR(constants, segment_widths) ==
    [constants |-> constants, segment_widths |-> segment_widths]

\* the AirIR of a program that declares no constant and no trace segment
NoIR == AirIR(<<>>, <<>>)

\* An expression of the source is a record [e, name, k, l, r]: a trace column
\* access name or name' (k = row offset), a constant k, an arithmetic operation
\* on l and r (Exp: l to the power k), or a boolean operator on l and r.
Nil == [e |-> "Nil"]

Elem(name, offset) == [e |-> "Elem", name |-> name, k |-> offset, l |-> Nil, r |-> Nil]

Const(k) == [e |-> "Const", name |-> "", k |-> k, l |-> Nil, r |-> Nil]

ExprAdd(l, r) == [e |-> "Add", name |-> "", k |-> 0, l |-> l, r |-> r]

ExprSub(l, r) == [e |-> "Sub", name |-> "", k |-> 0, l |-> l, r |-> r]

ExprMul(l, r) == [e |-> "Mul", name |-> "", k |-> 0, l |-> l, r |-> r]

ExprExp(l, k) == [e |-> "Exp", name |-> "", k |-> k, l |-> l, r |-> Nil]

And(l, r) == [e |-> "And", name |-> "", k |-> 0, l |-> l, r |-> r]

Or(l, r) == [e |-> "Or", name |-> "", k |-> 0, l |-> l, r |-> r]

Not(l) == [e |-> "Not", name |-> "", k |-> 0, l |-> l, r |-> Nil]

\* `enf lhs = rhs`
Enf(lhs, rhs) == [lhs |-> lhs, rhs |-> rhs]

\* A source: the expression of a `let`, or the integrity_constraints section.
SourceExpr(expr) == [kind |-> "expr", expr |-> expr, integrity |-> <<>>]

SourceProgram(constraints) ==
    [kind |-> "program", expr |-> Nil, integrity |-> constraints]

NoSource == [kind |-> "none", expr |-> Nil, integrity |-> <<>>]

\* AlgebraicGraph::node, as a function of the arena g
NodeAt(g, index) == g[index + 1]

\* ------------------------------------------------------------------------
\* AlgebraicGraph::insert_op
\* ------------------------------------------------------------------------

\* self.nodes.iter().position(|n| *n.op() == op): the matching indices
Matches(g, op) == {i \in 0..(Len(g) - 1) : NodeAt(g, i) = op}

\* the first matching index (callers check that one exists)
Position(g, op) == CHOOSE i \in Matches(g, op) : \A j \in Matches(g, op) : i <= j

\* insert_op without the scan for an identical node
InsertNodesAlwaysPush(g, op) == Append(g, op)

\* insert_op putting a new node in front of the arena
InsertNodesInFront(g, op) == IF Matches(g, op) = {} THEN <<op>> \o g ELSE g

\* the arena after insert_op(op)
InsertNodes(g, op) == IF Matches(g, op) = {} THEN Append(g, op) ELSE g

\* insert_op reading self.nodes.len() after the push
InsertIndexAfterPush(g, op) == IF Matches(g, op) = {} THEN Len(g) + 1 ELSE Position(g, op)

\* the index insert_op(op) returns
InsertIndex(g, op) == IF Matches(g, op) = {} THEN Len(g) ELSE Position(g, op)

\* ------------------------------------------------------------------------
\* Constraint domains (ConstraintDomain, used by node_details)
\* ------------------------------------------------------------------------

FirstRow == [d |-> "FirstRow", k |-> 0]

LastRow == [d |-> "LastRow", k |-> 0]

EveryRow == [d |-> "EveryRow", k |-> 0]

EveryFrame(k) == [d |-> "EveryFrame", k |-> k]

\* ConstraintDomain::is_boundary
IsBoundary(dom) == dom.d \in {"FirstRow", "LastRow"}

\* ConstraintDomain::is_integrity
IsIntegrity(dom) == dom.d \in {"EveryRow", "EveryFrame"}

\* impl From<usize> for ConstraintDomain: the domain of a trace access at a row offset
DomainFromOffset(offset) == IF offset = 0 THEN EveryRow ELSE EveryFrame(offset)

\* ConstraintDomain::merge succeeds
MergeOk(x, y) ==
    \/ x = y
    \/ x.d = "EveryRow" /\ y.d = "EveryFrame"
    \/ x.d = "EveryFrame" /\ y.d = "EveryRow"

\* ConstraintDomain::merge, when it succeeds
Merge(x, y) == IF x.d = "EveryFrame" THEN x ELSE y

\* ------------------------------------------------------------------------
\* AlgebraicGraph::degree and AlgebraicGraph::accumulate_degree
\* ------------------------------------------------------------------------

Max(x, y) == IF x >= y THEN x ELSE y

\* BTreeMap<usize, usize>: a set of <<key, value>> pairs with one pair per key
EmptyMap == {}

\* a map insert that files every column under key 0
MapInsertFixedKey(m, key, value) == {p \in m : p[1] # 0} \cup {<<0, value>>}

\* BTreeMap::insert replaces the value of a key that is present
MapInsert(m, key, value) == {p \in m : p[1] # key} \cup {<<key, value>>}

\* BTreeMap::values().cloned().collect(): the values in ascending key order
RECURSIVE MapValues(_)
MapValues(m) ==
    IF m = {} THEN <<>>
    ELSE LET first == CHOOSE p \in m : \A q \in m : p[1] <= q[1]
         IN <<first[2]>> \o MapValues(m \ {first})

\* the base degree of a leaf, and what it records in the cycles map
LeafBase(v) == IF v.kind = "TraceElement" THEN 1 ELSE 0

LeafCycles(cycles, v) ==
    IF v.kind = "PeriodicColumn" THEN MapInsert(cycles, v.a, v.b) ELSE cycles

\* lhs_base.max(rhs_base) of Add and Sub
AddBase(lhs_base, rhs_base) == Max(lhs_base, rhs_base)

\* Mul treated like Add
MulBaseAsMax(lhs_base, rhs_base) == Max(lhs_base, rhs_base)

\* lhs_base + rhs_base of Mul
MulBase(lhs_base, rhs_base) == lhs_base + rhs_base

\* lhs_base * rhs of Exp
ExpBase(lhs_base, rhs) == lhs_base * rhs

\* fn accumulate_degree(&self, cycles: &mut BTreeMap<usize, usize>, index) -> usize:
\* the returned base together with the cycles map it leaves behind
RECURSIVE AccumulateDegree(_, _, _)
AccumulateDegree(g, cycles, index) ==
    LET op == NodeAt(g, index)
    IN  IF op.tag = "Value"
        THEN [base |-> LeafBase(op.value), cycles |-> LeafCycles(cycles, op.value)]
        ELSE LET l == AccumulateDegree(g, cycles, op.lhs)
             IN  IF op.tag = "Exp"
                 THEN [base |-> ExpBase(l.base, op.rhs), cycles |-> l.cycles]
                 ELSE LET r == AccumulateDegree(g, l.cycles, op.rhs)
                      IN  [base |-> IF op.tag = "Mul"
                                    THEN MulBase(l.base, r.base)
                                    ELSE AddBase(l.base, r.base),
                           cycles |-> r.cycles]

\* pub fn degree(&self, index) -> IntegrityConstraintDegree: (base, cycles)
DegreeOf(g, index) ==
    LET acc == AccumulateDegree(g, EmptyMap, index)
    IN  [base |-> acc.base, cycles |-> MapValues(acc.cycles)]

\* ------------------------------------------------------------------------
\* AlgebraicGraph::node_details
\* ------------------------------------------------------------------------

\* the domain field of a result that carries none
NoDomain == [d |-> "None", k |-> 0]

\* Results: Ok((segment, domain)), Err(SemanticError), or the panic of todo!()
Ok(segment, dom) == [kind |-> "Ok", segment |-> segment, domain |-> dom, err |-> "None"]

Err(e) == [kind |-> "Err", segment |-> 0, domain |-> NoDomain, err |-> e]

Panic == [kind |-> "Panic", segment |-> 0, domain |-> NoDomain, err |-> "todo"]

\* the Operation::Value arm with a public input contributing the first row,
\* whatever the default domain
LeafDetailsPublicFirstRow(v, default_domain) ==
    CASE v.kind = "Constant" -> Ok(DEFAULT_SEGMENT, default_domain)
      [] v.kind = "PublicInput" -> Ok(DEFAULT_SEGMENT, FirstRow)
      [] v.kind = "PeriodicColumn" ->
            IF ~IsIntegrity(default_domain) THEN Panic
            ELSE Ok(DEFAULT_SEGMENT, EveryRow)
      [] v.kind = "RandomValue" -> Ok(AUX_SEGMENT, default_domain)
      [] v.kind = "TraceElement" -> Ok(v.a, DomainFromOffset(v.c))

\* the Operation::Value arm
LeafDetails(v, default_domain) ==
    CASE v.kind = "Constant" -> Ok(DEFAULT_SEGMENT, default_domain)
      [] v.kind = "PublicInput" ->
            IF ~IsBoundary(default_domain) THEN Panic
            ELSE Ok(DEFAULT_SEGMENT, default_domain)
      [] v.kind = "PeriodicColumn" ->
            IF ~IsIntegrity(default_domain) THEN Panic
            ELSE Ok(DEFAULT_SEGMENT, EveryRow)
      [] v.kind = "RandomValue" -> Ok(AUX_SEGMENT, default_domain)
      [] v.kind = "TraceElement" -> Ok(v.a, DomainFromOffset(v.c))

\* the binary arm keeping the segment of the left operand
BinaryDetailsLeftSegment(l, r) ==
    IF l.kind # "Ok" THEN l
    ELSE IF r.kind # "Ok" THEN r
    ELSE IF MergeOk(l.domain, r.domain)
         THEN Ok(l.segment, Merge(l.domain, r.domain))
         ELSE Err("IncompatibleConstraintDomains")

\* the binary arm looking at the right operand first
BinaryDetailsRightFirst(l, r) ==
    IF r.kind # "Ok" THEN r
    ELSE IF l.kind # "Ok" THEN l
    ELSE IF MergeOk(l.domain, r.domain)
         THEN Ok(Max(l.segment, r.segment), Merge(l.domain, r.domain))
         ELSE Err("IncompatibleConstraintDomains")

\* the Add | Sub | Mul arm, given the results of the two recursive calls; `?`
\* returns the first Err, and the right call is not made after a failing left call
BinaryDetails(l, r) ==
    IF l.kind # "Ok" THEN l
    ELSE IF r.kind # "Ok" THEN r
    ELSE IF MergeOk(l.domain, r.domain)
         THEN Ok(Max(l.segment, r.segment), Merge(l.domain, r.domain))
         ELSE Err("IncompatibleConstraintDomains")

\* the Exp arm
ExpDetails(l) == l

RECURSIVE NodeDetails(_, _, _)
NodeDetails(g, index, default_domain) ==
    LET op == NodeAt(g, index)
    IN  IF op.tag = "Value" THEN LeafDetails(op.value, default_domain)
        ELSE IF op.tag = "Exp" THEN ExpDetails(NodeDetails(g, op.lhs, default_domain))
        ELSE BinaryDetails(NodeDetails(g, op.lhs, default_domain),
                           NodeDetails(g, op.rhs, default_domain))

\* ------------------------------------------------------------------------
\* Inputs of insert_op
\* ------------------------------------------------------------------------

\* Cycle length of the periodic column declared at a table index (a power of two).
CycleLen(index) == IF index = 0 THEN 2 ELSE 4

\* The leaves lowering can hand to insert_op.
Leaves ==
    { Val("Constant", 1, 0, 0),
      Val("RandomValue", 0, 0, 0),
      Val("PublicInput", 0, 0, 0),
      Val("PeriodicColumn", 0, CycleLen(0), 0),
      Val("PeriodicColumn", 1, CycleLen(1), 0),
      Val("TraceElement", 0, 0, 0),
      Val("TraceElement", 1, 0, 1) }

\* The exponents of Exp nodes.
Exponents == {0, 3}

\* The NodeIndex values a caller of insert_op can hold: NodeIndex::default() and
\* the indices insert_op has returned (the field of NodeIndex is private).
Handles(g) == {DefaultIndex} \cup (0..(Len(g) - 1))

OpInputs(g) ==
    {Value(v) : v \in Leaves}
        \cup {Add(l, r) : l \in Handles(g), r \in Handles(g)}
        \cup {Sub(l, r) : l \in Handles(g), r \in Handles(g)}
        \cup {Mul(l, r) : l \in Handles(g), r \in Handles(g)}
        \cup {Exp(l, k) : l \in Handles(g), k \in Exponents}

NoOp == Value(NoValue)

Call(name, op, index, domain) ==
    [name |-> name, op |-> op, index |-> index, domain |-> domain]

\* ------------------------------------------------------------------------
\* The state machine of the graph
\* ------------------------------------------------------------------------

\* Option<NodeIndex>::None
NoNode == -1

\* no pass is being run
NoVisit ==
    /\ order = "Manual"
    /\ schedules = FALSE
    /\ boundary = {}
    /\ integrity = {}
    /\ declared = [boundary |-> <<>>, integrity |-> <<>>]
    /\ todo = <<>>
    /\ stack = <<>>
    /\ last = NoNode
    /\ visited = <<>>
    /\ pc = "idle"

Init ==
    /\ nodes = <<>>
    /\ NoLinks
    /\ source = NoSource
    /\ ir = NoIR
    /\ call = Call("new", NoOp, 0, NoDomain)
    /\ ret = 0
    /\ NoVisit

\* pub(super) fn insert_op(&mut self, op: Operation) -> NodeIndex
InsertOp(op) ==
    /\ Len(InsertNodes(nodes, op)) <= MaxNodes
    /\ nodes' = InsertNodes(nodes, op)
    /\ ret' = InsertIndex(nodes, op)
    /\ call' = Call("insert_op", op, 0, NoDomain)
    /\ UNCHANGED <<linkVars, inputVars, visitVars>>

Next ==
    \E op \in OpInputs(nodes) : InsertOp(op)

Spec == Init /\ [][Next]_vars

\* ------------------------------------------------------------------------
\* The analyses applied to lowered expressions
\* ------------------------------------------------------------------------

\* The interior operations over a left operand in L and a right operand in R.
InteriorOps(L, R) ==
    {Add(l, r) : l \in L, r \in R}
        \cup {Sub(l, r) : l \in L, r \in R}
        \cup {Mul(l, r) : l \in L, r \in R}
        \cup {Exp(l, k) : l \in L, k \in Exponents}

\* The arenas left by lowering, in post-order through insert_op, the expressions
\*   a,   b,   o1(a, b),   o2(o1(a, b), c)   and   o2(c, o1(a, b))
\* over leaves a, b, c of LeafSet (equal leaves are shared by insert_op).
Lowered(LeafSet) ==
    UNION { LET g1 == InsertNodes(<<>>, Value(a))
                ia == InsertIndex(<<>>, Value(a))
                g2 == InsertNodes(g1, Value(b))
                ib == InsertIndex(g1, Value(b))
            IN  UNION { LET g3 == InsertNodes(g2, o1)
                            i1 == InsertIndex(g2, o1)
                            g4 == InsertNodes(g3, Value(c))
                            ic == InsertIndex(g3, Value(c))
                        IN  {g1, g2, g3}
                                \cup {InsertNodes(g4, o2) :
                                        o2 \in InteriorOps({i1}, {ic})
                                                 \cup InteriorOps({ic}, {i1})}
                        : o1 \in InteriorOps({ia}, {ib}), c \in LeafSet }
          : a \in LeafSet, b \in LeafSet }

LoweredGraphs == Lowered(Leaves)

\* The default domains node_details is called with.
Domains == {FirstRow, LastRow, EveryRow, EveryFrame(1)}

InitAnalysis ==
    /\ nodes \in LoweredGraphs
    /\ NoLinks
    /\ source = NoSource
    /\ ir = NoIR
    /\ call = Call("new", NoOp, 0, NoDomain)
    /\ ret = 0
    /\ NoVisit

\* pub fn degree(&self, index: &NodeIndex) -> IntegrityConstraintDegree
Degree(index) ==
    /\ call' = Call("degree", NoOp, index, NoDomain)
    /\ ret' = DegreeOf(nodes, index)
    /\ UNCHANGED nodes
    /\ UNCHANGED <<linkVars, inputVars, visitVars>>

\* pub fn node_details(&self, index, default_domain) -> Result<(TraceSegment, ConstraintDomain), SemanticError>
Details(index, default_domain) ==
    /\ call' = Call("node_details", NoOp, index, default_domain)
    /\ ret' = NodeDetails(nodes, index, default_domain)
    /\ UNCHANGED nodes
    /\ UNCHANGED <<linkVars, inputVars, visitVars>>

NextAnalysis ==
    \E index \in 0..(Len(nodes) - 1) :
        \/ Degree(index)
        \/ \E default_domain \in Domains : Details(index, default_domain)

SpecAnalysis == InitAnalysis /\ [][NextAnalysis]_vars

\* ------------------------------------------------------------------------
\* The traversal engine of the pass framework (trait Visit)
\* ------------------------------------------------------------------------

\* Graph::children: the operand indices of an operation, left to right
Children(op) ==
    IF op.tag \in {"Add", "Sub", "Mul"} THEN <<op.lhs, op.rhs>>
    ELSE IF op.tag = "Exp" THEN <<op.lhs>>
    ELSE <<>>

\* children.contains(&x)
Contains(s, x) == \E n \in DOMAIN s : s[n] = x

\* the children in the order they are stored: the left child is pushed first
ReverseKeepsOrder(s) == s

\* children.iter().rev()
Reverse(s) == [n \in 1..Len(s) |-> s[Len(s) + 1 - n]]

\* the sequences a HashSet can yield its elements in
Orderings(S) ==
    {s \in [1..Cardinality(S) -> S] : \A x \in S : \E n \in DOMAIN s : s[n] = x}

\* boundary_roots(graph).iter().chain(integrity_roots(graph).iter())
RootSequences == {b \o i : b \in Orderings(boundary), i \in Orderings(integrity)}

\* fn peek: self.as_stack_mut().last().copied()
Peek(st) == st[Len(st)]

\* what fn next_node leaves: self.as_stack_mut().pop()
Pop(st) == SubSeq(st, 1, Len(st) - 1)

\* fn visit_later, for each node of a sequence in turn
PushAll(st, s) == st \o s

\* the stack after self.visit(graph, node_index): the callback of a pass that
\* schedules pushes the children of the node, another callback leaves the stack alone
AfterVisit(st, node_index) ==
    IF schedules THEN PushAll(st, Reverse(Children(NodeAt(nodes, node_index)))) ELSE st

\* a readiness test that takes no account of a node without children
ReadyNeedsLast(children, lst) == lst # NoNode /\ Contains(children, lst)

\* the test of visit_postorder that a peeked node is ready to be visited
Ready(children, lst) ==
    Len(children) = 0 \/ (lst # NoNode /\ Contains(children, lst))

\* The leaves and the graphs the passes are run on.
VisitLeaves == {Val("Constant", 1, 0, 0), Val("TraceElement", 0, 0, 0)}

VisitGraphs == Lowered(VisitLeaves)

VisitOrders == {"Manual", "PostOrder", "DepthFirst"}

InitVisit ==
    /\ nodes \in VisitGraphs
    /\ NoLinks
    /\ source = NoSource
    /\ ir = NoIR
    /\ call = Call("new", NoOp, 0, NoDomain)
    /\ ret = 0
    /\ order \in VisitOrders
    /\ schedules \in BOOLEAN
    /\ schedules => order = "Manual"
    /\ boundary \in SUBSET (0..(Len(nodes) - 1))
    /\ integrity \in SUBSET (0..(Len(nodes) - 1))
    /\ Cardinality(boundary) + Cardinality(integrity) <= MaxRoots
    /\ declared \in [boundary : Orderings(boundary), integrity : Orderings(integrity)]
    /\ todo = <<>>
    /\ stack = <<>>
    /\ last = NoNode
    /\ visited = <<>>
    /\ pc = "run"

\* fn run: the match on visit_order() and the start of the for loop over the roots
Run ==
    /\ pc = "run"
    /\ todo' \in RootSequences
    /\ pc' = CASE order = "Manual" -> "manual"
               [] order = "PostOrder" -> "postorder_for"
               [] order = "DepthFirst" -> "depthfirst_for"
    /\ UNCHANGED <<linkVars, inputVars, graphVars, order, schedules, boundary, integrity, declared, stack, last, visited>>

\* fn visit_manual: one turn of the for loop
ManualVisit ==
    /\ pc = "manual"
    /\ todo # <<>>
    /\ visited' = Append(visited, Head(todo))
    /\ stack' = AfterVisit(stack, Head(todo))
    /\ todo' = Tail(todo)
    /\ UNCHANGED <<linkVars, inputVars, graphVars, order, schedules, boundary, integrity, declared, last, pc>>

\* fn visit_postorder: the for loop takes the next root
PostOrderRoot ==
    /\ pc = "postorder_for"
    /\ todo # <<>>
    /\ stack' = PushAll(stack, <<Head(todo)>>)
    /\ last' = NoNode
    /\ todo' = Tail(todo)
    /\ pc' = "postorder_while"
    /\ UNCHANGED <<linkVars, inputVars, graphVars, order, schedules, boundary, integrity, declared, visited>>

\* fn visit_postorder: the peeked node is visited and popped
PostOrderVisit ==
    /\ pc = "postorder_while"
    /\ stack # <<>>
    /\ Ready(Children(NodeAt(nodes, Peek(stack))), last)
    /\ visited' = Append(visited, Peek(stack))
    /\ stack' = Pop(AfterVisit(stack, Peek(stack)))
    /\ last' = Peek(stack)
    /\ UNCHANGED <<linkVars, inputVars, graphVars, order, schedules, boundary, integrity, declared, todo, pc>>

\* fn visit_postorder: the peeked node stays and its children are pushed
PostOrderDefer ==
    /\ pc = "postorder_while"
    /\ stack # <<>>
    /\ ~Ready(Children(NodeAt(nodes, Peek(stack))), last)
    /\ stack' = PushAll(stack, Reverse(Children(NodeAt(nodes, Peek(stack)))))
    /\ UNCHANGED <<linkVars, inputVars, graphVars, order, schedules, boundary, integrity, declared, todo, last, visited, pc>>

\* fn visit_postorder: peek() is None, the while loop ends
PostOrderEmpty ==
    /\ pc = "postorder_while"
    /\ stack = <<>>
    /\ pc' = "postorder_for"
    /\ UNCHANGED <<linkVars, inputVars, graphVars, order, schedules, boundary, integrity, declared, todo, stack, last, visited>>

\* fn visit_depthfirst: the for loop takes the next root
DepthFirstRoot ==
    /\ pc = "depthfirst_for"
    /\ todo # <<>>
    /\ stack' = PushAll(stack, <<Head(todo)>>)
    /\ todo' = Tail(todo)
    /\ pc' = "depthfirst_while"
    /\ UNCHANGED <<linkVars, inputVars, graphVars, order, schedules, boundary, integrity, declared, last, visited>>

\* fn visit_depthfirst: a node is popped, its children are pushed, it is visited
DepthFirstStep ==
    /\ pc = "depthfirst_while"
    /\ stack # <<>>
    /\ stack' = AfterVisit(PushAll(Pop(stack), Reverse(Children(NodeAt(nodes, Peek(stack))))),
                           Peek(stack))
    /\ visited' = Append(visited, Peek(stack))
    /\ UNCHANGED <<linkVars, inputVars, graphVars, order, schedules, boundary, integrity, declared, todo, last, pc>>

\* fn visit_depthfirst: next_node() is None, the while loop ends
DepthFirstEmpty ==
    /\ pc = "depthfirst_while"
    /\ stack = <<>>
    /\ pc' = "depthfirst_for"
    /\ UNCHANGED <<linkVars, inputVars, graphVars, order, schedules, boundary, integrity, declared, todo, stack, last, visited>>

\* the for loop of visit_manual, visit_postorder or visit_depthfirst is over
RootsDone ==
    /\ pc \in {"manual", "postorder_for", "depthfirst_for"}
    /\ todo = <<>>
    /\ pc' = "drain"
    /\ UNCHANGED <<linkVars, inputVars, graphVars, order, schedules, boundary, integrity, declared, todo, stack, last, visited>>

\* fn run: while let Some(node_index) = self.next_node() { self.visit(graph, node_index) }
Drain ==
    /\ pc = "drain"
    /\ stack # <<>>
    /\ visited' = Append(visited, Peek(stack))
    /\ stack' = AfterVisit(Pop(stack), Peek(stack))
    /\ UNCHANGED <<linkVars, inputVars, graphVars, order, schedules, boundary, integrity, declared, todo, last, pc>>

\* fn run returns
Return ==
    /\ pc = "drain"
    /\ stack = <<>>
    /\ pc' = "done"
    /\ UNCHANGED <<linkVars, inputVars, graphVars, order, schedules, boundary, integrity, declared, todo, stack, last, visited>>

NextVisit ==
    \/ Run
    \/ ManualVisit
    \/ PostOrderRoot
    \/ PostOrderVisit
    \/ PostOrderDefer
    \/ PostOrderEmpty
    \/ DepthFirstRoot
    \/ DepthFirstStep
    \/ DepthFirstEmpty
    \/ RootsDone
    \/ Drain
    \/ Return

SpecVisit == InitVisit /\ [][NextVisit]_vars

\* The runs of a pass whose roots are declared in one order, which the traversal
\* does not read.
InitVisitFair ==
    /\ InitVisit
    /\ declared = [boundary |-> CHOOSE b \in Orderings(boundary) : TRUE,
                   integrity |-> CHOOSE i \in Orderings(integrity) : TRUE]

\* Visit::run is one sequential call: it goes on while it has a step to take.
SpecVisitFair == InitVisitFair /\ [][NextVisit]_vars /\ WF_vars(NextVisit)

\* ------------------------------------------------------------------------
\* The constant propagation pass (struct ConstantPropagation)
\* ------------------------------------------------------------------------

MaxRuns == 2

\* the node is a constant leaf
IsConstant(g, index) ==
    NodeAt(g, index).tag = "Value" /\ NodeAt(g, index).value.kind = "Constant"

\* the node is an operation all of whose operands are constant leaves
ConstantOperation(g, index) ==
    LET op == NodeAt(g, index)
    IN  \/ op.tag \in {"Add", "Sub", "Mul"} /\ IsConstant(g, op.lhs) /\ IsConstant(g, op.rhs)
        \/ op.tag = "Exp" /\ IsConstant(g, op.lhs)

\* ControlFlow<()> together with the graph the visitor leaves behind &mut ir
Flow(flow, g) == [flow |-> flow, graph |-> g]

\* a visitor that replaces, on each run, only the first sum, difference or
\* product of two constants by its value
RunVisitorFoldsOne(mir) ==
    LET F == {i \in 0..(Len(mir) - 1) :
                 NodeAt(mir, i).tag \in {"Add", "Sub", "Mul"} /\ ConstantOperation(mir, i)}
    IN  IF F = {} THEN Flow("Continue", mir)
        ELSE LET i == CHOOSE x \in F : \A y \in F : x <= y
                 op == NodeAt(mir, i)
                 a == NodeAt(mir, op.lhs).value.a
                 b == NodeAt(mir, op.rhs).value.a
                 v == CASE op.tag = "Add" -> a + b
                        [] op.tag = "Sub" -> a - b
                        [] op.tag = "Mul" -> a * b
             IN  Flow("Continue", [mir EXCEPT ![i + 1] = Value(Val("Constant", v, 0, 0))])

\* fn run_visitor(&mut self, _ir: &mut MirGraph) -> ControlFlow<()>
RunVisitor(mir) == Flow("Continue", mir)

\* Result<MirGraph, ()>
PassOk(mir) == [kind |-> "Ok", ir |-> mir]

PassErr == [kind |-> "Err", ir |-> <<>>]

\* fn run(&mut self, mut ir) -> Result<Self::Output, Self::Error>, as a function
PassRun(mir) ==
    LET r == RunVisitor(mir)
    IN  IF r.flow = "Continue" THEN PassOk(r.graph) ELSE PassErr

\* The graphs the pass is run on, each with one integrity root.
InitPass ==
    /\ nodes \in VisitGraphs
    /\ NoLinks
    /\ source = NoSource
    /\ ir = NoIR
    /\ call = Call("new", NoOp, 0, NoDomain)
    /\ ret = 0
    /\ order = "Manual"
    /\ schedules = FALSE
    /\ boundary = {}
    /\ integrity \in {{r} : r \in 0..(Len(nodes) - 1)}
    /\ declared = [boundary |-> <<>>, integrity |-> <<>>]
    /\ todo = <<>>
    /\ stack = <<>>
    /\ last = NoNode
    /\ visited = <<>>
    /\ pc = "idle"

\* ConstantPropagation::run on the graph as built, or on the graph the run
\* before returned; call.index counts the runs
ConstantPropagationRun ==
    /\ call.index < MaxRuns
    /\ call.name = "run" => ret.kind = "Ok"
    /\ call' = Call("run", NoOp, call.index + 1, NoDomain)
    /\ ret' = PassRun(nodes)
    /\ nodes' = IF ret'.kind = "Ok" THEN ret'.ir ELSE nodes
    /\ UNCHANGED <<linkVars, inputVars, visitVars>>

NextPass == ConstantPropagationRun

SpecPass == InitPass /\ [][NextPass]_vars

\* ------------------------------------------------------------------------
\* The helper functions of the GCE code generator (codegen/gce/src/lib.rs)
\* ------------------------------------------------------------------------

\* ConstantType: the value of a named constant
Scalar(value) == [type |-> "Scalar", scalar |-> value, vector |-> <<>>, matrix |-> <<>>]

Vector(values) == [type |-> "Vector", scalar |-> 0, vector |-> values, matrix |-> <<>>]

Matrix(values) == [type |-> "Matrix", scalar |-> 0, vector |-> <<>>, matrix |-> values]

\* values.iter().flatten(): the rows of a matrix one after the other
RECURSIVE Flatten(_)
Flatten(values) ==
    IF values = <<>> THEN <<>> ELSE Head(values) \o Flatten(Tail(values))

\* a push with no test that the value is new
PushAlways(constants, value) == Append(constants, value)

\* if !constants.contains(value) { constants.push(*value) }
PushUnique(constants, value) ==
    IF Contains(constants, value) THEN constants ELSE Append(constants, value)

\* for elem in values { ... }
RECURSIVE PushElems(_, _)
PushElems(constants, values) ==
    IF values = <<>> THEN constants
    ELSE PushElems(PushUnique(constants, Head(values)), Tail(values))

\* the loop over ir.constants()
RECURSIVE NamedConstants(_, _)
NamedConstants(constants, decls) ==
    IF decls = <<>> THEN constants
    ELSE LET constant == Head(decls)
             pushed == CASE constant.type = "Scalar" -> PushUnique(constants, constant.scalar)
                         [] constant.type = "Vector" -> PushElems(constants, constant.vector)
                         [] constant.type = "Matrix" ->
                                PushElems(constants, Flatten(constant.matrix))
         IN  NamedConstants(pushed, Tail(decls))

\* the loop over ir.constraint_graph().nodes(); an inline constant is the leaf
\* Value(Constant(value)) of the arena
RECURSIVE InlineConstants(_, _)
InlineConstants(constants, g) ==
    IF g = <<>> THEN constants
    ELSE LET op == Head(g)
             pushed ==
                 IF op.tag = "Value" /\ op.value.kind = "Constant"
                     THEN PushUnique(constants, op.value.a)
                 ELSE IF op.tag = "Exp"
                     THEN IF op.rhs = 0 THEN PushUnique(constants, 1)
                          ELSE PushUnique(constants, op.rhs)
                 ELSE constants
         IN  InlineConstants(pushed, Tail(g))

\* fn set_constants(ir: &AirIR) -> Vec<u64>
SetConstantsOf(air, g) == InlineConstants(NamedConstants(<<>>, air.constants), g)

\* The number of values of a u16.
U16Modulus == 65536

\* what a build without overflow checks keeps of a u16 result
WrapU16(n) == n % U16Modulus

\* a u16 result: the wrapped value, and whether the true value did not fit
U16(n) == [value |-> WrapU16(n), overflow |-> n >= U16Modulus]

\* .fold(init, |acc, &x| acc + x * extension_degree as u16) over the u16 values xs
RECURSIVE FoldPolys(_, _, _)
FoldPolys(acc, xs, extension_degree) ==
    IF xs = <<>> THEN acc
    ELSE LET product == U16(Head(xs) * extension_degree)
             sum == U16(acc.value + product.value)
             next == [value |-> sum.value,
                      overflow |-> acc.overflow \/ product.overflow \/ sum.overflow]
         IN  FoldPolys(next, Tail(xs), extension_degree)

\* Results of set_num_polys: the u16 returned, or a panic
NumPolys(value) == [kind |-> "Ok", value |-> value]

NumPolysPanic(msg) == [kind |-> "Panic", value |-> msg]

\* fn set_num_polys(ir: &AirIR, extension_degree: u8) -> u16: what it can do.
\* num_polys_vec[0] panics on an empty vector; an overflowing u16 operation
\* panics in a build with overflow checks and wraps in a build without them.
SetNumPolysOutcomes(air, extension_degree) ==
    LET num_polys_vec == air.segment_widths
    IN  IF num_polys_vec = <<>> THEN {NumPolysPanic("index out of bounds")}
        ELSE LET folded == FoldPolys(U16(num_polys_vec[1]), Tail(num_polys_vec),
                                     extension_degree)
             IN  IF folded.overflow
                     THEN {NumPolysPanic("arithmetic overflow"), NumPolys(folded.value)}
                 ELSE {NumPolys(folded.value)}

\* The inputs of the code generator.
ConstantValues == {0, 1, 2}

\* the constant sections `const A = a; const B = [b, c]; const C = [[c, d], [d, b]]`
ConstantSections ==
    {<<Scalar(a), Vector(<<b, c>>), Matrix(<<<<c, d>>, <<d, b>>>>)>> :
        a \in ConstantValues, b \in ConstantValues,
        c \in ConstantValues, d \in ConstantValues}

CodegenLeaves ==
    {Val("Constant", 1, 0, 0), Val("Constant", 5, 0, 0), Val("TraceElement", 0, 0, 0)}

CodegenGraphs == Lowered(CodegenLeaves)

Widths == {0, 1, 2, 32768, 65535}

WidthLists == UNION {[1..n -> Widths] : n \in 0..MaxSegments}

ExtensionDegrees == {0, 1, 2, 3, 255}

\* a program with constants and constraints, or a list of segment widths
InitCodegen ==
    /\ NoLinks
    /\ source = NoSource
    /\ \/ /\ nodes \in CodegenGraphs
          /\ ir \in {AirIR(constants, <<1>>) : constants \in ConstantSections}
       \/ /\ nodes = <<>>
          /\ ir \in {AirIR(<<>>, segment_widths) : segment_widths \in WidthLists}
    /\ call = Call("new", NoOp, 0, NoDomain)
    /\ ret = 0
    /\ NoVisit

SetConstants ==
    /\ call' = Call("set_constants", NoOp, 0, NoDomain)
    /\ ret' = SetConstantsOf(ir, nodes)
    /\ UNCHANGED <<linkVars, inputVars, nodes, visitVars>>

\* call.index carries the extension degree
SetNumPolys(extension_degree) ==
    /\ call' = Call("set_num_polys", NoOp, extension_degree, NoDomain)
    /\ ret' \in SetNumPolysOutcomes(ir, extension_degree)
    /\ UNCHANGED <<linkVars, inputVars, nodes, visitVars>>

NextCodegen ==
    \/ SetConstants
    \/ \E extension_degree \in ExtensionDegrees : SetNumPolys(extension_degree)

SpecCodegen == InitCodegen /\ [][NextCodegen]_vars

\* ------------------------------------------------------------------------
\* The front end and the assembly back end, as far as the tests show them
\* ------------------------------------------------------------------------

\* `a | b` read as the sum of its operands
DesugarOrAsSum(a, b) == ExprAdd(a, b)

\* `a | b => (a + b) - (a * b)`, on the translated operands
DesugarOr(a, b) == ExprSub(ExprAdd(a, b), ExprMul(a, b))

\* the parser's translation of boolean operators into arithmetic
RECURSIVE Desugar(_)
Desugar(x) ==
    CASE x.e = "And" -> ExprMul(Desugar(x.l), Desugar(x.r))
      [] x.e = "Not" -> ExprSub(Const(1), Desugar(x.l))
      [] x.e = "Or" -> DesugarOr(Desugar(x.l), Desugar(x.r))
      [] x.e = "Add" -> ExprAdd(Desugar(x.l), Desugar(x.r))
      [] x.e = "Sub" -> ExprSub(Desugar(x.l), Desugar(x.r))
      [] x.e = "Mul" -> ExprMul(Desugar(x.l), Desugar(x.r))
      [] x.e = "Exp" -> ExprExp(Desugar(x.l), x.k)
      [] OTHER -> x

RECURSIVE Power(_, _)
Power(b, k) == IF k = 0 THEN 1 ELSE b * Power(b, k - 1)

\* the value of an arithmetic expression on a frame; frame[name] is the pair of
\* the column's value in the current and in the next row
RECURSIVE Eval(_, _)
Eval(x, frame) ==
    CASE x.e = "Elem" -> frame[x.name][x.k + 1]
      [] x.e = "Const" -> x.k
      [] x.e = "Add" -> Eval(x.l, frame) + Eval(x.r, frame)
      [] x.e = "Sub" -> Eval(x.l, frame) - Eval(x.r, frame)
      [] x.e = "Mul" -> Eval(x.l, frame) * Eval(x.r, frame)
      [] x.e = "Exp" -> Power(Eval(x.l, frame), x.k)

\* an evaluation pushed under the ones already on the stack
PushBelow(st, value) == Append(st, value)

\* an evaluation pushed on the operand stack, whose top is the head
PushOnTop(st, value) == <<value>> \o st

\* the stack compute_evaluate_transitions leaves: the evaluation lhs - rhs of each
\* integrity constraint is pushed in declaration order
RECURSIVE EvaluateTransitions(_, _, _)
EvaluateTransitions(st, constraints, frame) ==
    IF constraints = <<>> THEN st
    ELSE LET c == Head(constraints)
             value == Eval(c.lhs, frame) - Eval(c.rhs, frame)
         IN  EvaluateTransitions(PushOnTop(st, value), Tail(constraints), frame)

\* The sources: boolean expressions over two columns, nested twice at most, and
\* integrity_constraints sections over the columns a and b.
Flags == {Elem("n1", 0), Elem("n2", 0)}

BoolOver(S) ==
    S \cup {Not(x) : x \in S} \cup {And(x, y) : x \in S, y \in S}
      \cup {Or(x, y) : x \in S, y \in S}

BoolExprs == BoolOver(BoolOver(Flags))

\* static ARITH_AIR, EXP_AIR and MULTIPLE_ROWS_AIR of the tests
ARITH_AIR ==
    <<Enf(ExprAdd(Elem("a", 0), Elem("a", 0)), Const(0)),
      Enf(ExprSub(Elem("a", 0), Elem("a", 0)), Const(0)),
      Enf(ExprMul(Elem("a", 0), Elem("a", 0)), Const(0)),
      Enf(ExprAdd(Elem("b", 0), Elem("a", 0)), Const(0)),
      Enf(ExprSub(Elem("b", 0), Elem("a", 0)), Const(0)),
      Enf(ExprMul(Elem("b", 0), Elem("a", 0)), Const(0))>>

EXP_AIR ==
    <<Enf(ExprExp(Elem("b", 0), 1), Const(0)),
      Enf(ExprExp(Elem("b", 0), 2), Const(0)),
      Enf(ExprExp(Elem("b", 0), 3), Const(0)),
      Enf(ExprExp(Elem("b", 0), 4), Const(0)),
      Enf(ExprExp(Elem("b", 0), 5), Const(0))>>

MULTIPLE_ROWS_AIR ==
    <<Enf(Elem("a", 1), ExprMul(Elem("a", 0), Const(2))),
      Enf(Elem("b", 1), ExprAdd(Elem("a", 0), Elem("b", 0)))>>

\* the constraints of the three sections
TestConstraints ==
    {ARITH_AIR[n] : n \in DOMAIN ARITH_AIR} \cup {EXP_AIR[n] : n \in DOMAIN EXP_AIR}
        \cup {MULTIPLE_ROWS_AIR[n] : n \in DOMAIN MULTIPLE_ROWS_AIR}

Programs ==
    {ARITH_AIR, EXP_AIR, MULTIPLE_ROWS_AIR}
        \cup {<<c, d>> : c \in TestConstraints, d \in TestConstraints}

\* Main frames on which no evaluation of the programs leaves the range 0..2^31 - 1:
\* b is at least a, a' at least 2a and b' at least a + b.
Frames ==
    {[name \in {"a", "b"} |->
         IF name = "a" THEN <<a, 2 * a + da>> ELSE <<a + db, 2 * a + db + dn>>] :
        a \in {0, 3}, da \in {0, 1}, db \in {0, 4}, dn \in {0, 1}}

InitSource ==
    /\ NoLinks
    /\ source \in {SourceExpr(x) : x \in BoolExprs}
                    \cup {SourceProgram(p) : p \in Programs}
    /\ ir = NoIR
    /\ nodes = <<>>
    /\ call = Call("new", NoOp, 0, NoDomain)
    /\ ret = 0
    /\ NoVisit

\* the parser is run on the expression
Parse ==
    /\ source.kind = "expr"
    /\ call' = Call("parse", NoOp, 0, NoDomain)
    /\ ret' = Desugar(source.expr)
    /\ UNCHANGED <<linkVars, inputVars, nodes, visitVars>>

\* the generated procedure is executed on a main frame; call.domain carries the frame
ComputeEvaluateTransitions(main_frame) ==
    /\ source.kind = "program"
    /\ call' = Call("compute_evaluate_transitions", NoOp, 0, main_frame)
    /\ ret' = EvaluateTransitions(<<>>, source.integrity, main_frame)
    /\ UNCHANGED <<linkVars, inputVars, nodes, visitVars>>

NextSource ==
    \/ Parse
    \/ \E main_frame \in Frames : ComputeEvaluateTransitions(main_frame)

SpecSource == InitSource /\ [][NextSource]_vars

\* ------------------------------------------------------------------------
\* Parent and child links of the ir2 graph (ir/src/ir2/graph.rs)
\* ------------------------------------------------------------------------

\* .retain(|c| c != &child): a link equals its own clones and no other link
RECURSIVE Retain(_, _)
Retain(list, child) ==
    IF list = <<>> THEN <<>>
    ELSE IF Head(list) = child THEN Retain(Tail(list), child)
    ELSE <<Head(list)>> \o Retain(Tail(list), child)

\* fn remove_child, as a function of the child lists
RemoveChildOf(lists, p, child) == [lists EXCEPT ![p] = Retain(lists[p], child)]

\* fn swap_parent: the child lists after the old parent, if there is one and it is
\* not the new parent, has removed the child
SwapParentLists(lists, backlinks, child, new_parent) ==
    LET old_parent == backlinks[child]
    IN  IF old_parent # NoParent /\ old_parent # new_parent
            THEN RemoveChildOf(lists, old_parent, child)
        ELSE lists

\* fn swap_parent: self.set_parent(new_parent)
SwapParentLinks(backlinks, child, new_parent) == [backlinks EXCEPT ![child] = new_parent]

InitLinks ==
    /\ NoLinks
    /\ source = NoSource
    /\ ir = NoIR
    /\ nodes = <<>>
    /\ call = Call("new", NoOp, 0, NoDomain)
    /\ ret = 0
    /\ NoVisit

\* fn add_child(&mut self, mut child) -> Link<NodeType>: push, then child.swap_parent(self)
AddChild(p, child) ==
    /\ Len(children_of[p]) < MaxChildren
    /\ children_of' = SwapParentLists([children_of EXCEPT ![p] = Append(@, child)],
                                      parent_of, child, p)
    /\ parent_of' = SwapParentLinks(parent_of, child, p)
    /\ call' = Call("add_child", NoOp, 0, NoDomain)
    /\ ret' = p
    /\ UNCHANGED <<inputVars, nodes, visitVars>>

\* fn remove_child(&mut self, child) -> Link<NodeType>
RemoveChild(p, child) ==
    /\ children_of' = RemoveChildOf(children_of, p, child)
    /\ call' = Call("remove_child", NoOp, 0, NoDomain)
    /\ ret' = p
    /\ UNCHANGED <<parent_of, inputVars, nodes, visitVars>>

NextLinks ==
    \E p \in LinkNodes, child \in LinkChildren :
        \/ AddChild(p, child)
        \/ RemoveChild(p, child)

SpecLinks == InitLinks /\ [][NextLinks]_vars

\* ------------------------------------------------------------------------
\* Definitions used to state the properties
\* ------------------------------------------------------------------------

Indices == 0..(Len(nodes) - 1)

BinaryTags == {"Add", "Sub", "Mul"}

\* the child indices of an operation
ChildSet(op) ==
    IF op.tag \in BinaryTags THEN {op.lhs, op.rhs}
    ELSE IF op.tag = "Exp" THEN {op.lhs}
    ELSE {}

\* the indices of the nodes of the subgraph with tip index (the tip included)
RECURSIVE Beneath(_, _)
Beneath(g, index) ==
    {index} \cup UNION {Beneath(g, c) : c \in ChildSet(NodeAt(g, index))}

\* the leaf values of the subgraph with tip index
LeavesBeneath(g, index) ==
    {NodeAt(g, i).value : i \in {j \in Beneath(g, index) : NodeAt(g, j).tag = "Value"}}

\* the table indices of the periodic columns of the subgraph with tip index
PeriodicBeneath(g, index) ==
    {v.a : v \in {w \in LeavesBeneath(g, index) : w.kind = "PeriodicColumn"}}

SeqRange(s) == {s[n] : n \in DOMAIN s}

SetMax(S) == CHOOSE x \in S : \A y \in S : y <= x

\* the operation the last call was about
CallOp == NodeAt(nodes, call.index)

\* ------------------------------------------------------------------------
\* Properties of insert_op (specification Spec)
\* ------------------------------------------------------------------------

\* C1: no two distinct indices of the arena hold structurally equal operations.
StructuralUniqueness ==
    \A i \in Indices : \A j \in Indices :
        i # j => NodeAt(nodes, i) # NodeAt(nodes, j)

\* insert_op has just returned the index of a node that was already there
ReinsertedFirstNode ==
    /\ call.name = "insert_op"
    /\ Len(nodes) >= 2
    /\ ret = 0
    /\ call.op = NodeAt(nodes, 0)

\* C2: every Add, Sub, Mul or Exp node stored at index k has all of its child
\* indices strictly less than k.
AcyclicByIndex ==
    \A k \in Indices : \A c \in ChildSet(NodeAt(nodes, k)) : c < k

\* C3: the index insert_op returned for the operation a it was last called with
\* is the index a following insert_op(b) returns if and only if b = a; and
\* inserting an operation that is present returns the index of the existing node
\* and leaves the arena as it is.
InsertIffEqual ==
    /\ call.name = "insert_op" =>
            \A b \in OpInputs(nodes) :
                (InsertIndex(nodes, b) = ret) <=> (b = call.op)
    /\ \A i \in Indices :
            /\ InsertIndex(nodes, NodeAt(nodes, i)) = i
            /\ InsertNodes(nodes, NodeAt(nodes, i)) = nodes

\* insert_op has returned an existing node that is not the last of the arena
ReturnedExistingIndex ==
    /\ call.name = "insert_op"
    /\ ret < Len(nodes) - 1
    /\ NodeAt(nodes, ret) = call.op

\* C4: every insert_op keeps the nodes it found at their indices, removes none,
\* and grows the arena by 0 or by exactly 1 node, which it puts at the old length.
AppendOnly ==
    [][ /\ Len(nodes') \in {Len(nodes), Len(nodes) + 1}
        /\ SubSeq(nodes', 1, Len(nodes)) = nodes
        /\ Len(nodes') = Len(nodes) + 1 =>
                /\ ret' = Len(nodes)
                /\ nodes'[Len(nodes) + 1] = call'.op ]_vars

\* insert_op has appended an interior node behind the nodes of its operands
AppendedBehindOperands ==
    /\ call.name = "insert_op"
    /\ Len(nodes) = 3
    /\ ret = 2
    /\ call.op.tag \in BinaryTags
    /\ call.op.lhs = 0
    /\ call.op.rhs = 1

\* ------------------------------------------------------------------------
\* Properties of the analyses (specification SpecAnalysis)
\* ------------------------------------------------------------------------

\* the degree table, folded over the subgraph without the cycles map
RECURSIVE ReferenceBase(_, _)
ReferenceBase(g, index) ==
    LET op == NodeAt(g, index)
    IN  CASE op.tag = "Value" -> (IF op.value.kind = "TraceElement" THEN 1 ELSE 0)
          [] op.tag \in {"Add", "Sub"} ->
                LET l == ReferenceBase(g, op.lhs)
                    r == ReferenceBase(g, op.rhs)
                IN  IF l >= r THEN l ELSE r
          [] op.tag = "Mul" -> ReferenceBase(g, op.lhs) + ReferenceBase(g, op.rhs)
          [] op.tag = "Exp" -> ReferenceBase(g, op.lhs) * op.rhs

\* C5: the base component of degree(root) equals the reference fold: 0 for
\* Constant, RandomValue, PublicInput and PeriodicColumn, 1 for TraceElement,
\* the maximum for Add and Sub, the sum for Mul, deg(b) * k for Exp(b, k).
DegreeBaseIsReferenceFold ==
    call.name = "degree" => ret.base = ReferenceBase(nodes, call.index)

\* degree of a product whose operands both have a positive degree
DegreeOfProduct ==
    /\ call.name = "degree"
    /\ CallOp.tag = "Mul"
    /\ DegreeOf(nodes, CallOp.lhs).base >= 1
    /\ DegreeOf(nodes, CallOp.rhs).base >= 1
    /\ ret.base >= 2

\* C6: the cycles of degree(root) hold exactly one entry per distinct periodic
\* column table index beneath the root, and the cycle set of an Add, Sub or Mul
\* node is the union of the cycle sets of its two operands.
CyclesOncePerColumn ==
    call.name = "degree" =>
        /\ Len(ret.cycles) = Cardinality(PeriodicBeneath(nodes, call.index))
        /\ SeqRange(ret.cycles) = {CycleLen(p) : p \in PeriodicBeneath(nodes, call.index)}
        /\ CallOp.tag \in BinaryTags =>
                SeqRange(ret.cycles) =
                    SeqRange(DegreeOf(nodes, CallOp.lhs).cycles)
                        \cup SeqRange(DegreeOf(nodes, CallOp.rhs).cycles)

\* degree of a node that reaches one periodic column through both operands and
\* another one through one operand
DegreeOfSharedColumn ==
    /\ call.name = "degree"
    /\ CallOp.tag \in BinaryTags
    /\ PeriodicBeneath(nodes, CallOp.lhs) = {0, 1}
    /\ PeriodicBeneath(nodes, CallOp.rhs) = {0}
    /\ Len(ret.cycles) = 2

\* the segment the property gives a leaf
LeafSegment(v) ==
    CASE v.kind \in {"Constant", "PublicInput", "PeriodicColumn"} -> 0
      [] v.kind = "RandomValue" -> 1
      [] v.kind = "TraceElement" -> v.a

\* C7: when node_details returns Ok, its segment is the maximum segment over the
\* leaves beneath the root; and for Exp(b, k) the result is the result for b.
SegmentIsMaxOverLeaves ==
    call.name = "node_details" =>
        /\ ret.kind = "Ok" =>
                ret.segment = SetMax({LeafSegment(v) : v \in LeavesBeneath(nodes, call.index)})
        /\ CallOp.tag = "Exp" => ret = NodeDetails(nodes, CallOp.lhs, call.domain)

\* node_details is Ok on a binary node with an aux left operand and a main right one
DetailsOfMixedSegments ==
    /\ call.name = "node_details"
    /\ ret.kind = "Ok"
    /\ CallOp.tag \in BinaryTags
    /\ NodeDetails(nodes, CallOp.lhs, call.domain).segment = 0
    /\ NodeDetails(nodes, CallOp.rhs, call.domain).segment = 1
    /\ ret.segment = 1

\* the call gives a leaf of the subgraph a domain it is not valid in
LeafInWrongDomain ==
    \/ /\ \E v \in LeavesBeneath(nodes, call.index) : v.kind = "PublicInput"
       /\ ~IsBoundary(call.domain)
    \/ /\ \E v \in LeavesBeneath(nodes, call.index) : v.kind = "PeriodicColumn"
       /\ ~IsIntegrity(call.domain)

\* C8: node_details returns Err, rather than aborting, when the subgraph holds a
\* PublicInput leaf and default_domain is no boundary domain, or a PeriodicColumn
\* leaf and default_domain is no integrity domain.
WrongDomainLeafIsErr ==
    (call.name = "node_details" /\ LeafInWrongDomain) => ret.kind = "Err"

\* C9: on an Add, Sub or Mul node whose operands both have a domain, node_details
\* is Ok with the merged domain exactly when the two domains merge and is the
\* IncompatibleConstraintDomains error when they do not; an error of the left
\* operand is returned whatever the right operand would give.
BinaryMergesOrFails ==
    (call.name = "node_details" /\ CallOp.tag \in BinaryTags) =>
        LET l == NodeDetails(nodes, CallOp.lhs, call.domain)
            r == NodeDetails(nodes, CallOp.rhs, call.domain)
            merges ==
                \/ l.domain = r.domain
                \/ {l.domain.d, r.domain.d} = {"EveryRow", "EveryFrame"}
        IN  /\ (l.kind = "Ok" /\ r.kind = "Ok" /\ merges) =>
                    /\ ret.kind = "Ok"
                    /\ ret.domain = IF l.domain = r.domain THEN l.domain
                                    ELSE EveryFrame(Max(l.domain.k, r.domain.k))
            /\ (l.kind = "Ok" /\ r.kind = "Ok" /\ ~merges) =>
                    ret = Err("IncompatibleConstraintDomains")
            /\ ret.kind = "Ok" => (l.kind = "Ok" /\ r.kind = "Ok" /\ merges)
            /\ l.kind = "Err" => ret = l

\* the left operand fails to merge and the right operand, had it been looked at,
\* would have aborted
LeftErrorBeforeRight ==
    /\ call.name = "node_details"
    /\ CallOp.tag \in BinaryTags
    /\ NodeDetails(nodes, CallOp.lhs, call.domain).kind = "Err"
    /\ NodeDetails(nodes, CallOp.rhs, call.domain).kind = "Panic"
    /\ ret = Err("IncompatibleConstraintDomains")

\* ------------------------------------------------------------------------
\* Properties of the traversal (specification SpecVisit)
\* ------------------------------------------------------------------------

\* every child of the node of the n-th visit was visited before it
ChildrenVisitedBefore(n) ==
    \A c \in ChildSet(NodeAt(nodes, visited[n])) :
        \E m \in 1..(n - 1) : visited[m] = c

\* C10: each call visit(graph, n) made by visit_postorder happens only after
\* every child of n has been visited.
PostOrderChildrenFirst ==
    order = "PostOrder" => \A n \in DOMAIN visited : ChildrenVisitedBefore(n)

\* the pre-order of the expression with tip index: the node, then the pre-order
\* of each child from left to right
RECURSIVE PreOrder(_, _)
PreOrder(g, index) ==
    LET op == NodeAt(g, index)
    IN  IF op.tag = "Value" THEN <<index>>
        ELSE IF op.tag = "Exp" THEN <<index>> \o PreOrder(g, op.lhs)
        ELSE <<index>> \o PreOrder(g, op.lhs) \o PreOrder(g, op.rhs)

\* the pre-orders of the nodes of a sequence, one after the other
RECURSIVE PreOrderAll(_, _)
PreOrderAll(g, s) ==
    IF s = <<>> THEN <<>> ELSE PreOrder(g, Head(s)) \o PreOrderAll(g, Tail(s))

\* the nodes of a stack from the top down: the order they will be popped in
TopFirst(st) == [n \in 1..Len(st) |-> st[Len(st) + 1 - n]]

\* C11: visit_depthfirst is pre-order: a node is visited before the nodes of its
\* sub-expressions, and the left-most child with its whole subtree before the next
\* child. At every point of the run the visits made, followed by the pre-orders of
\* the nodes waiting on the stack (top first) and of the roots still to come, are
\* the pre-orders of the roots in the order the for loop yields them.
DepthFirstIsPreOrder ==
    (order = "DepthFirst" /\ pc # "run") =>
        \E rs \in RootSequences :
            visited \o PreOrderAll(nodes, TopFirst(stack)) \o PreOrderAll(nodes, todo)
                = PreOrderAll(nodes, rs)

\* a depth-first run has returned after descending through a binary root whose
\* left child is itself a binary node
DepthFirstNestedDone ==
    /\ order = "DepthFirst"
    /\ pc = "done"
    /\ Len(visited) = 5
    /\ NodeAt(nodes, visited[1]).tag \in BinaryTags
    /\ visited[2] = NodeAt(nodes, visited[1]).lhs
    /\ NodeAt(nodes, visited[2]).tag \in BinaryTags
    /\ visited[5] = NodeAt(nodes, visited[1]).rhs

\* C12: in every visit order the traversal starts from the roots in the sequence
\* all boundary roots in declaration order, then all integrity roots in
\* declaration order.
RootsInDeclarationOrder ==
    (pc \in {"manual", "postorder_for", "depthfirst_for"}
        /\ Len(todo) = Cardinality(boundary) + Cardinality(integrity)
        /\ visited = <<>>)
        => todo = declared.boundary \o declared.integrity

\* C20: when Visit::run has returned in PostOrder or DepthFirst order, every node
\* reachable from a root has been passed to visit at least once.
VisitCoversReachable ==
    (pc = "done" /\ order \in {"PostOrder", "DepthFirst"}) =>
        \A r \in boundary \cup integrity :
            \A n \in Beneath(nodes, r) : \E m \in DOMAIN visited : visited[m] = n

\* with a callback that schedules nothing, run returns
RunReturns == (~schedules) => <>(pc = "done")

\* the work stack is empty when run has returned
StackEmptyAtReturn == [](pc = "done" => stack = <<>>)

\* a step of the while loop of visit_postorder on a peeked node either pops that
\* node or pushes its children, which are then at least one
PeekPopsOrPushes ==
    [][(pc = "postorder_while" /\ stack # <<>>) =>
          LET node_index == stack[Len(stack)]
              children == Children(NodeAt(nodes, node_index))
          IN  \/ stack' = SubSeq(stack, 1, Len(stack) - 1)
              \/ /\ children # <<>>
                 /\ Len(stack') = Len(stack) + Len(children)
                 /\ SubSeq(stack', 1, Len(stack)) = stack
                 /\ \A c \in 1..Len(children) : Contains(SubSeq(stack', Len(stack) + 1, Len(stack')), children[c])]_vars

\* C21: on an acyclic graph and with a callback that schedules nothing, Visit::run
\* terminates in each visit order with the work stack empty, and in
\* visit_postorder every peek is followed by popping the peeked node or by
\* pushing its children.
RunTerminatesWithEmptyStack ==
    RunReturns /\ StackEmptyAtReturn /\ PeekPopsOrPushes

\* a PostOrder run has returned after both deferring and visiting nodes
PostOrderRunDone ==
    /\ order = "PostOrder"
    /\ ~schedules
    /\ pc = "done"
    /\ stack = <<>>
    /\ Len(visited) >= 4

\* ------------------------------------------------------------------------
\* Properties of the arena contents and of the passes
\* ------------------------------------------------------------------------

\* C15: no node Exp(_, 0) ever appears in the arena.
NoExpZeroInArena ==
    \A i \in Indices : ~(NodeAt(nodes, i).tag = "Exp" /\ NodeAt(nodes, i).rhs = 0)

\* C16: constant propagation is idempotent: run on the output of a run returns
\* Ok with a graph equal to that output.
RunIsIdempotent ==
    [][(call.name = "run" /\ ret.kind = "Ok" /\ call'.name = "run")
          => (ret'.kind = "Ok" /\ ret'.ir = ret.ir)]_vars

\* the pass has been run on the output of its first run, for a graph that holds
\* an operation on constants beneath its root
SecondRunOnFoldableGraph ==
    /\ call.name = "run"
    /\ call.index = 2
    /\ ret.kind = "Ok"
    /\ \E r \in integrity : \E n \in Beneath(nodes, r) : ConstantOperation(nodes, n)

\* C17: after run has returned Ok, the graph reachable from the roots holds no
\* Add, Sub, Mul or Exp all of whose operands are constants.
NoConstantOperationAfterRun ==
    (call.name = "run" /\ ret.kind = "Ok") =>
        \A r \in boundary \cup integrity :
            \A n \in Beneath(ret.ir, r) : ~ConstantOperation(ret.ir, n)

\* ------------------------------------------------------------------------
\* Properties of the code generator helpers (specification SpecCodegen)
\* ------------------------------------------------------------------------

\* what a node of the arena contributes to the scan: nothing, or one value
NodeSighting(op) ==
    IF op.tag = "Value" /\ op.value.kind = "Constant" THEN <<op.value.a>>
    ELSE IF op.tag = "Exp" THEN (IF op.rhs = 0 THEN <<1>> ELSE <<op.rhs>>)
    ELSE <<>>

\* what a named constant contributes: its value, its elements, its rows in turn
ConstantSighting(constant) ==
    CASE constant.type = "Scalar" -> <<constant.scalar>>
      [] constant.type = "Vector" -> constant.vector
      [] constant.type = "Matrix" -> Flatten(constant.matrix)

\* the values of the constant section, in the order of the scan
RECURSIVE ConstantSightings(_)
ConstantSightings(decls) ==
    IF decls = <<>> THEN <<>>
    ELSE ConstantSighting(Head(decls)) \o ConstantSightings(Tail(decls))

\* the values of the graph nodes, in arena order
RECURSIVE NodeSightings(_)
NodeSightings(g) ==
    IF g = <<>> THEN <<>> ELSE NodeSighting(Head(g)) \o NodeSightings(Tail(g))

\* the scan: the named constants, then the graph nodes in arena order
Scan == ConstantSightings(ir.constants) \o NodeSightings(nodes)

\* the position of the first sighting of a value in a sequence
FirstSighting(s, x) == CHOOSE n \in DOMAIN s : s[n] = x /\ \A m \in 1..(n - 1) : s[m] # x

\* C13: set_constants returns the duplicate-free list of the values of the scan
\* (named constants, then graph nodes in arena order; Exp(_, k) contributes k and
\* Exp(_, 0) contributes 1), each value kept at its first sighting.
ConstantsAreFirstSightings ==
    call.name = "set_constants" =>
        /\ \A i, j \in DOMAIN ret : i # j => ret[i] # ret[j]
        /\ SeqRange(ret) = SeqRange(Scan)
        /\ \A i, j \in DOMAIN ret :
               i < j => FirstSighting(Scan, ret[i]) < FirstSighting(Scan, ret[j])

\* the constants A = 1, B = [0, 1], C = [[1, 2], [2, 0]] and a graph with the
\* inline constant 5 have given [1, 0, 2, 5]
ConstantsOfExample ==
    /\ call.name = "set_constants"
    /\ ir.constants = <<Scalar(1), Vector(<<0, 1>>), Matrix(<<<<1, 2>>, <<2, 0>>>>)>>
    /\ \E i \in Indices : NodeAt(nodes, i) = Value(Val("Constant", 5, 0, 0))
    /\ ret = <<1, 0, 2, 5>>

\* the sum main_width + sum of aux_width * extension_degree, without a width limit
RECURSIVE TrueNumPolys(_, _)
TrueNumPolys(widths, extension_degree) ==
    IF widths = <<>> THEN 0
    ELSE TrueNumPolys(SubSeq(widths, 1, Len(widths) - 1), extension_degree)
            + (IF Len(widths) = 1 THEN widths[1]
               ELSE widths[Len(widths)] * extension_degree)

\* C18: for every list of segment widths and every extension degree, the empty
\* list and sums beyond 65535 included, set_num_polys returns main_width plus the
\* sum of aux_width * extension_degree in 16-bit unsigned arithmetic.
NumPolysIsWrappedSum ==
    call.name = "set_num_polys" =>
        /\ ret.kind = "Ok"
        /\ ret.value = TrueNumPolys(ir.segment_widths, call.index) % 65536

\* ------------------------------------------------------------------------
\* Properties of the front end and of the assembly back end (SpecSource)
\* ------------------------------------------------------------------------

\* the truth value of a boolean expression over flags, as 0 or 1
RECURSIVE Truth(_, _)
Truth(x, frame) ==
    CASE x.e = "And" -> IF Truth(x.l, frame) = 1 /\ Truth(x.r, frame) = 1 THEN 1 ELSE 0
      [] x.e = "Or" -> IF Truth(x.l, frame) = 1 \/ Truth(x.r, frame) = 1 THEN 1 ELSE 0
      [] x.e = "Not" -> IF Truth(x.l, frame) = 1 THEN 0 ELSE 1
      [] OTHER -> Eval(x, frame)

\* the frames that give the flags values in {0, 1}
BoolFrames == [{"n1", "n2"} -> {<<0, 0>>, <<1, 1>>}]

\* C14: `a & b` becomes Mul(a, b), `!a` becomes Sub(Const(1), a) and `a | b`
\* becomes Sub(Add(a, b), Mul(a, b)), the operands translated in the same way; for
\* operands in {0, 1} the arithmetic equals logical AND, NOT and OR.
BooleanSugarIsArithmetic ==
    call.name = "parse" =>
        LET x == source.expr
        IN  /\ x.e = "And" => ret = ExprMul(Desugar(x.l), Desugar(x.r))
            /\ x.e = "Not" => ret = ExprSub(Const(1), Desugar(x.l))
            /\ x.e = "Or" => ret = ExprSub(ExprAdd(Desugar(x.l), Desugar(x.r)),
                                           ExprMul(Desugar(x.l), Desugar(x.r)))
            /\ x = And(Elem("n1", 0), Not(Elem("n2", 0)))
                  => ret = ExprMul(Elem("n1", 0), ExprSub(Const(1), Elem("n2", 0)))
            /\ \A frame \in BoolFrames : Eval(ret, frame) = Truth(x, frame)

\* `n1 | !n2` has been parsed into (n1 + (1 - n2)) - n1 * (1 - n2), the shape the
\* test variables_with_or_operators expects
ParsedOrOfNot ==
    /\ call.name = "parse"
    /\ source.expr = Or(Elem("n1", 0), Not(Elem("n2", 0)))
    /\ ret = ExprSub(ExprAdd(Elem("n1", 0), ExprSub(Const(1), Elem("n2", 0))),
                     ExprMul(Elem("n1", 0), ExprSub(Const(1), Elem("n2", 0))))

\* C19: compute_evaluate_transitions leaves one evaluation per integrity
\* constraint, in the reverse of declaration order from the top of the stack, each
\* being lhs - rhs of its constraint on the main frame.
EvaluationsInReverseOrder ==
    call.name = "compute_evaluate_transitions" =>
        LET n == Len(source.integrity)
        IN  /\ Len(ret) = n
            /\ \A m \in 1..n :
                   ret[m] = Eval(source.integrity[n + 1 - m].lhs, call.domain)
                              - Eval(source.integrity[n + 1 - m].rhs, call.domain)

\* test_simple_arithmetic: a = 3 and b = 7 give b * a, b - a, b + a, a * a, a - a,
\* a + a
SimpleArithmeticExpected ==
    /\ call.name = "compute_evaluate_transitions"
    /\ source.integrity = ARITH_AIR
    /\ call.domain["a"][1] = 3
    /\ call.domain["b"][1] = 7
    /\ ret = <<21, 4, 10, 9, 0, 6>>

\* ------------------------------------------------------------------------
\* The domains within one call of node_details (specification SpecAnalysis)
\* ------------------------------------------------------------------------

\* the domains a leaf may contribute to a call with default domain D: the default
\* itself, EveryRow for a periodic column, the frame of a trace row offset
LeafContributions(v, D) ==
    CASE v.kind = "PeriodicColumn" -> {EveryRow}
      [] v.kind = "TraceElement" -> {EveryRow, EveryFrame(v.c)}
      [] OTHER -> {D}

\* C23: within one call node_details(root, D) every leaf contributes D, EveryRow
\* (periodic column) or the domain of a trace row offset; so with an integrity D
\* the call never returns FirstRow or LastRow, and no node beneath the root has
\* one operand in FirstRow and the other in LastRow.
NoBoundaryDomainFromIntegrity ==
    call.name = "node_details" =>
        LET D == call.domain
            sub(i) == NodeDetails(nodes, i, D)
        IN  /\ \A i \in Beneath(nodes, call.index) :
                   (NodeAt(nodes, i).tag = "Value" /\ sub(i).kind = "Ok")
                       => sub(i).domain \in LeafContributions(NodeAt(nodes, i).value, D)
            /\ (IsIntegrity(D) /\ ret.kind = "Ok") => ret.domain \notin {FirstRow, LastRow}
            /\ \A i \in Beneath(nodes, call.index) :
                   NodeAt(nodes, i).tag \in BinaryTags =>
                       LET l == sub(NodeAt(nodes, i).lhs)
                           r == sub(NodeAt(nodes, i).rhs)
                       IN  ~(l.kind = "Ok" /\ r.kind = "Ok"
                               /\ {l.domain, r.domain} = {FirstRow, LastRow})

\* node_details has returned Ok for an integrity default domain on a binary node
\* over a leaf that takes the default domain and a trace access in the next row
IntegrityDetailsOfMixedLeaves ==
    /\ call.name = "node_details"
    /\ IsIntegrity(call.domain)
    /\ ret.kind = "Ok"
    /\ ret.domain = EveryFrame(1)
    /\ CallOp.tag \in BinaryTags
    /\ \E v \in LeavesBeneath(nodes, call.index) : v.kind \in {"Constant", "RandomValue"}
    /\ \E v \in LeavesBeneath(nodes, call.index) : v.kind = "TraceElement" /\ v.c = 1

\* ------------------------------------------------------------------------
\* Properties of the ir2 links (specification SpecLinks)
\* ------------------------------------------------------------------------

\* C22: after any sequence of add_child and remove_child calls, a node c is in the
\* child list of p exactly when the parent back-link of c points to p, and c is in
\* the child list of at most one parent.
LinksConsistent ==
    /\ \A p \in LinkNodes, c \in LinkChildren :
           Contains(children_of[p], c) <=> parent_of[c] = p
    /\ \A c \in LinkChildren :
           Cardinality({p \in LinkNodes : Contains(children_of[p], c)}) <= 1

====
